---- MODULE Spec2Model ----
(***************************************************************************)
(* Model of so_5::env_infrastructures::simple_mtsafe: a single worker     *)
(* thread running run_main_loop() under m_sync_objects.m_lock, with       *)
(* producer threads calling push, stop, ready_to_deregister_notify,       *)
(* schedule_timer, single_timer and query_stats.                          *)
(*                                                                         *)
(* The cooperation repository, the timer manager and the elapsed timers   *)
(* collector are collaborators whose code is outside this file; they are  *)
(* modelled from their documented interface.                              *)
(***************************************************************************)
EXTENDS Integers, Sequences, FiniteSets, TLC

\* ------------------------------------------------------------------ bounds
\* Number of demands pushed through event_queue_impl_t::push, by callers of
\* the dispatcher and by the delivery of elapsed timers.
MaxDemands == 2
\* Number of demands, cooperations and timers the callers give in all.
MaxInputs == 4
\* Number of cooperations that can be registered.
MaxCoops == 2
\* Number of timers that can be scheduled.
MaxTimers == 1

\* std::chrono::minutes(1) of try_handle_next_demand: the clock ticks in minutes.
IdleCap == 1
\* Pauses a caller may give to schedule_timer / single_timer, in minutes.
Pauses == {2}

Producers == {"p1"}
Worker == "worker"
Threads == Producers \cup {Worker}
NoOwner == "none"

Coops == 1..MaxCoops
Timers == 1..MaxTimers
\* Demands are numbered in the order in which push is called with them.
DemandIds == 1..MaxDemands

VARIABLES
    m_lock,               \* owner of m_sync_objects.m_lock, or NoOwner
    m_status,             \* m_sync_objects.m_status
    m_demands,            \* event_queue_impl_t::m_demands
    m_final_dereg_coops,  \* env_infrastructure_t::m_final_dereg_coops
    m_shutdown_status,    \* env_infrastructure_t::m_shutdown_status
    wpc,                  \* position of the thread that called launch()
    coops,                \* local batch of process_final_deregs_if_any
    demand,               \* local demand of try_handle_next_demand (0: none)
    exception_from_init,  \* run_user_supplied_init_and_do_main_loop local
    launch_result,        \* how launch() ended: "running", "returned", "rethrown"
    call,                 \* per thread: the entry point it is inside
    cv_notified,          \* m_wakeup_condition: the waiter has been notified
    sleep_left,           \* ticks left of the current wait_for
    coop_state,           \* cooperation repository: state of every coop
    dereg_started,        \* cooperation repository: deregister_all_coop called
    timers,               \* timer manager and collector: state of every timer,
                          \* time left, demand pushed by its delivery (0: none)
    next_demand,          \* number of demands handed to push by callers
    lock_order,           \* history: demands in the order push locked m_lock
    dispatched,           \* history: demands handed to handle_demand, in order
    push_done,            \* history: demands whose push has returned
    precedes,             \* history: per demand, pushes returned before it began
    last_notify,          \* history: m_status seen by notify_one in the latest step
    ext_call,             \* history: collaborator calls of the latest worker step
    unobserved,           \* history: stop requests and timers made while the
                          \*          worker was waiting and not seen by it yet
    activity              \* history: the phases that the calls made so far on
                          \*          m_activity_tracker have started and not stopped

vars == << m_lock, m_status, m_demands, m_final_dereg_coops, m_shutdown_status,
           wpc, coops, demand, exception_from_init, launch_result, call,
           cv_notified, sleep_left, coop_state, dereg_started, timers,
           next_demand, lock_order, dispatched, push_done, precedes,
           last_notify, ext_call, unobserved, activity >>

guarded == << m_status, m_demands, m_final_dereg_coops, m_shutdown_status >>
worker_locals == << wpc, coops, demand, exception_from_init, launch_result >>
repo == << coop_state, dereg_started >>
push_hist == << next_demand, lock_order, push_done, precedes >>

\* ------------------------------------------------------------ enumerations
\* main_thread_status_t
working == "working"
waiting == "waiting"

\* shutdown_status_t
not_started == "not_started"
must_be_started == "must_be_started"
in_progress == "in_progress"
completed == "completed"

ShutdownOrd(s) ==
    CASE s = not_started -> 0
      [] s = must_be_started -> 1
      [] s = in_progress -> 2
      [] s = completed -> 3

Idle == [op |-> "none", arg |-> 0, st |-> "idle"]

\* Positions of the worker in which it holds m_lock.
LockedPcs == {"drain", "shutdown", "shutdown_check", "timers", "pop"}
\* Positions of the worker inside the action of unlock_do_and_lock_again.
Windows == {"final_dereg", "dereg_all", "timers_process", "handle"}

Min(a, b) == IF a < b THEN a ELSE b

\* --------------------------------------------------- cooperation repository
\* A cooperation is "none" before its registration, then "live", "notified"
\* once it has told the environment that it is ready for its final
\* deregistration, and "gone" after final_deregister_coop.
\* coop_repo_t::has_live_coop: a cooperation is live from its registration
\* until its final deregistration.
has_live_coop ==
    \E c \in Coops : coop_state[c] \in {"live", "notified"}

\* ------------------------------------------------------------ timer manager
PendingTimers == {k \in Timers : timers[k].st = "pending"}
ElapsedTimers == {k \in Timers : timers[k].st = "elapsed"}

\* Variant: the wait is always as long as the default timeout.
timeout_is_default(cap) == cap

\* timer_manager_t::timeout_before_nearest_timer( default_timeout )
timeout_before_nearest_timer(cap) ==
    IF PendingTimers = {} THEN cap
    ELSE LET nearest == CHOOSE k \in PendingTimers :
                            \A j \in PendingTimers : timers[k].left <= timers[j].left
         IN Min(cap, timers[nearest].left)

\* timer_manager_t::schedule / schedule_anonymous with a zero period
schedule(pause) ==
    LET k == CHOOSE j \in Timers : timers[j].st = "unused" /\
                 \A i \in Timers : timers[i].st = "unused" => j <= i
    IN [timers EXCEPT ![k] = [st |-> "pending", left |-> pause, dem |-> 0]]

\* timer_manager_t::process_expired_timers: due timers go to the collector
process_expired_timers ==
    [k \in Timers |->
        IF timers[k].st = "pending" /\ timers[k].left = 0
        THEN [st |-> "elapsed", left |-> 0, dem |-> 0]
        ELSE timers[k]]

\* ------------------------------------------------------------ the callers
\* What the callers have given to the environment so far: demands,
\* cooperations and timers.
InputsUsed ==
    next_demand + Cardinality({c \in Coops : coop_state[c] # "none"})
                + Cardinality({k \in Timers : timers[k].st # "unused"})

\* ------------------------------------------------------------------ helpers
\* Variant: the action is run without the unlock.
UnlockForAction_kept(owner) == owner

\* helpers::unlock_do_and_lock_again, first half: acquired_lock.unlock()
UnlockForAction(owner) == NoOwner

\* Variant: the test of m_status is inverted.
wakeup_if_working(status) == status # "waiting"

\* Variant: notify_one is called whatever m_status is.
wakeup_always(status) == TRUE

\* wakeup_if_waiting: whether notify_one is called
wakeup_if_waiting(status) == status = waiting

\* std::condition_variable::notify_one: wakes the thread blocked in wait_for,
\* and is lost when there is none.
notify_one(flag) == IF wpc = "cv_wait" THEN TRUE ELSE flag

\* Effect of wakeup_if_waiting on the condition and on the notify history.
Wakeup ==
    IF wakeup_if_waiting(m_status)
    THEN /\ cv_notified' = notify_one(cv_notified)
         /\ last_notify' = m_status
    ELSE /\ cv_notified' = cv_notified
         /\ last_notify' = "none"

\* A change made by an entry point while m_status is waiting.
Note(x) ==
    unobserved' = IF m_status = waiting THEN unobserved \cup {x} ELSE unobserved

\* The worker has seen the changes S.
Observe(S) == unobserved' = unobserved \ S

Init ==
    /\ m_lock = NoOwner
    /\ m_status = working
    /\ m_demands = << >>
    /\ m_final_dereg_coops = << >>
    /\ m_shutdown_status = not_started
    /\ wpc = "init"
    /\ coops = << >>
    /\ demand = 0
    /\ exception_from_init = FALSE
    /\ launch_result = "running"
    /\ call = [t \in Threads |-> Idle]
    /\ cv_notified = FALSE
    /\ sleep_left = 0
    /\ coop_state = [c \in Coops |-> "none"]
    /\ dereg_started = FALSE
    /\ timers = [k \in Timers |-> [st |-> "unused", left |-> 0, dem |-> 0]]
    /\ next_demand = 0
    /\ lock_order = << >>
    /\ dispatched = << >>
    /\ push_done = {}
    /\ precedes = [d \in DemandIds |-> {}]
    /\ last_notify = "none"
    /\ ext_call = {}
    /\ unobserved = {}
    /\ activity = [wait |-> FALSE, work |-> FALSE]

\* ------------------------------------------------- entry points: the locks
\* Any producer thread can call an entry point at any time; the worker can
\* call one while it is inside the action of unlock_do_and_lock_again
\* (a handler, final_deregister_coop or deregister_all_coop calling back),
\* and calls stop() when init_fn has thrown.
CanCall(t) ==
    /\ call[t] = Idle
    /\ t \in Producers \/ wpc \in {"final_dereg", "dereg_all", "handle"}

\* Variant: the body runs without the lock_guard.
LockAcquire_skipped(t) == m_lock

\* std::lock_guard< std::mutex > lock( m_sync_objects.m_lock ): the new owner
LockAcquire(t) == t

\* The constructor of the lock_guard of entry point `op`: it blocks while
\* another thread owns the mutex. A thread that locks the mutex it already
\* owns never returns from the call.
lock_guard(t, op, arg) ==
    IF m_lock = t
    THEN /\ t = Worker
         /\ wpc' = "self_deadlock"
         /\ UNCHANGED << m_lock, call, lock_order, coops, demand,
                         exception_from_init, launch_result >>
    ELSE /\ m_lock = NoOwner
         /\ m_lock' = LockAcquire(t)
         /\ call' = [call EXCEPT ![t] = [op |-> op, arg |-> arg, st |-> "locked"]]
         /\ lock_order' = IF op = "push" THEN Append(lock_order, arg) ELSE lock_order
         /\ UNCHANGED worker_locals

call_push(t) ==
    /\ CanCall(t)
    /\ InputsUsed < MaxInputs
    /\ next_demand < MaxDemands
    /\ lock_guard(t, "push", next_demand + 1)
    /\ next_demand' = next_demand + 1
    /\ precedes' = [precedes EXCEPT ![next_demand + 1] = push_done]
    /\ last_notify' = "none"
    /\ UNCHANGED << guarded, cv_notified, sleep_left, repo, timers, dispatched,
                    push_done, ext_call, unobserved, activity >>

call_stop(t) ==
    /\ CanCall(t) \/ (t = Worker /\ wpc = "init_stop" /\ call[t] = Idle)
    /\ lock_guard(t, "stop", 0)
    /\ last_notify' = "none"
    /\ UNCHANGED << guarded, cv_notified, sleep_left, repo, timers, next_demand,
                    push_done, precedes, dispatched, ext_call, unobserved,
                    activity >>

\* A registered cooperation tells the environment, once, that it is ready for
\* its final deregistration: its deregistration was asked for by its users or
\* by deregister_all_coop, and its agents have finished their work.
call_ready_to_deregister_notify(t, c) ==
    /\ CanCall(t)
    /\ coop_state[c] = "live"
    /\ lock_guard(t, "ready_to_deregister_notify", c)
    /\ coop_state' = [coop_state EXCEPT ![c] = "notified"]
    /\ last_notify' = "none"
    /\ UNCHANGED << guarded, cv_notified, sleep_left, dereg_started, timers,
                    next_demand, push_done, precedes, dispatched, ext_call,
                    unobserved, activity >>

call_schedule_timer(t, pause) ==
    /\ CanCall(t)
    /\ InputsUsed < MaxInputs
    /\ \E k \in Timers : timers[k].st = "unused"
    /\ lock_guard(t, "schedule_timer", pause)
    /\ last_notify' = "none"
    /\ UNCHANGED << guarded, cv_notified, sleep_left, repo, timers, next_demand,
                    push_done, precedes, dispatched, ext_call, unobserved,
                    activity >>

call_single_timer(t, pause) ==
    /\ CanCall(t)
    /\ InputsUsed < MaxInputs
    /\ \E k \in Timers : timers[k].st = "unused"
    /\ lock_guard(t, "single_timer", pause)
    /\ last_notify' = "none"
    /\ UNCHANGED << guarded, cv_notified, sleep_left, repo, timers, next_demand,
                    push_done, precedes, dispatched, ext_call, unobserved,
                    activity >>

call_query_stats(t) ==
    /\ CanCall(t)
    /\ lock_guard(t, "query_stats", 0)
    /\ last_notify' = "none"
    /\ UNCHANGED << guarded, cv_notified, sleep_left, repo, timers, next_demand,
                    push_done, precedes, dispatched, ext_call, unobserved,
                    activity >>

\* ----------------------------------------------- entry points: their bodies
InBody(t, op) == call[t].op = op /\ call[t].st = "locked"

\* The destructor of the lock_guard, and the return of the entry point.
Return(t) ==
    /\ m_lock' = NoOwner
    /\ call' = [call EXCEPT ![t] = Idle]

\* Variant: the demand is dropped.
push_lost(q, d) == q

\* Variant: the demand is put at the head of the queue.
push_front(q, d) == << d >> \o q

\* std::deque::push_back
push_back(q, d) == Append(q, d)

\* event_queue_impl_t::push
push(t) ==
    /\ InBody(t, "push")
    /\ m_demands' = push_back(m_demands, call[t].arg)
    /\ Wakeup
    /\ Return(t)
    /\ push_done' = push_done \cup {call[t].arg}
    /\ unobserved' = unobserved
    /\ UNCHANGED << m_status, m_final_dereg_coops, m_shutdown_status,
                    worker_locals, sleep_left, repo, timers, next_demand,
                    lock_order, precedes, dispatched, ext_call, activity >>

\* event_queue_impl_t::query_stats
query_stats(t) ==
    /\ InBody(t, "query_stats")
    /\ Len(m_demands) >= 0
    /\ Return(t)
    /\ last_notify' = "none"
    /\ UNCHANGED << guarded, worker_locals, cv_notified, sleep_left, repo, timers,
                    push_hist, dispatched, ext_call, unobserved, activity >>

\* Variant: stop() does not test the status.
stop_applies_always(status) == TRUE

\* Variant: stop() restarts a shutdown that is in progress.
stop_applies_until_completed(status) == status \in {"not_started", "in_progress"}

\* The test of env_infrastructure_t::stop
stop_applies(status) == status = not_started

\* env_infrastructure_t::stop (called by run_user_supplied_init_and_do_main_loop
\* too, which goes on to run_main_loop when it returns)
stop(t) ==
    /\ InBody(t, "stop")
    /\ IF stop_applies(m_shutdown_status)
       THEN /\ m_shutdown_status' = must_be_started
            /\ Wakeup
       ELSE /\ m_shutdown_status' = m_shutdown_status
            /\ cv_notified' = cv_notified
            /\ last_notify' = "none"
    /\ Return(t)
    /\ wpc' = IF t = Worker /\ wpc = "init_stop" THEN "loop_lock" ELSE wpc
    /\ IF m_shutdown_status = not_started
       THEN Note(<<"stop", 0>>) ELSE unobserved' = unobserved
    /\ UNCHANGED << m_status, m_demands, m_final_dereg_coops, coops, demand,
                    exception_from_init, launch_result, sleep_left, repo, timers,
                    push_hist, dispatched, ext_call, activity >>

\* Variant: the handle is put at the head of the backlog.
emplace_front(q, c) == << c >> \o q

\* std::deque::emplace_back
emplace_back(q, c) == Append(q, c)

\* env_infrastructure_t::ready_to_deregister_notify
ready_to_deregister_notify(t) ==
    /\ InBody(t, "ready_to_deregister_notify")
    /\ m_final_dereg_coops' = emplace_back(m_final_dereg_coops, call[t].arg)
    /\ Wakeup
    /\ Return(t)
    /\ unobserved' = unobserved
    /\ UNCHANGED << m_status, m_demands, m_shutdown_status, worker_locals,
                    sleep_left, repo, timers, push_hist, dispatched, ext_call,
                    activity >>

\* env_infrastructure_t::schedule_timer
schedule_timer(t) ==
    /\ InBody(t, "schedule_timer")
    /\ timers' = schedule(call[t].arg)
    /\ Wakeup
    /\ Return(t)
    /\ Note(<<"timer", CHOOSE k \in Timers : timers[k] # timers'[k]>>)
    /\ UNCHANGED << guarded, worker_locals, sleep_left, repo, push_hist,
                    dispatched, ext_call, activity >>

\* env_infrastructure_t::single_timer
single_timer(t) ==
    /\ InBody(t, "single_timer")
    /\ timers' = schedule(call[t].arg)
    /\ Wakeup
    /\ Return(t)
    /\ Note(<<"timer", CHOOSE k \in Timers : timers[k] # timers'[k]>>)
    /\ UNCHANGED << guarded, worker_locals, sleep_left, repo, push_hist,
                    dispatched, ext_call, activity >>

\* ---------------------------------------------------------------- the clock
\* One tick of std::chrono::steady_clock: every pending timer and the
\* current wait_for come one tick nearer.
Tick ==
    /\ \/ \E k \in PendingTimers : timers[k].left > 0
       \/ wpc = "cv_wait" /\ sleep_left > 0
    /\ timers' = [k \in Timers |->
                    IF timers[k].st = "pending" /\ timers[k].left > 0
                    THEN [timers[k] EXCEPT !.left = @ - 1]
                    ELSE timers[k]]
    /\ sleep_left' = IF sleep_left > 0 THEN sleep_left - 1 ELSE 0
    /\ last_notify' = "none"
    /\ UNCHANGED << m_lock, guarded, worker_locals, call, cv_notified, repo,
                    push_hist, dispatched, ext_call, unobserved, activity >>

\* ------------------------------------------------------------ the worker
\* The calls made on m_activity_tracker, as they act on the phases started
\* and not stopped.
wait_started(a) == [a EXCEPT !.wait = TRUE]

wait_start_if_not_started(a) == IF a.wait THEN a ELSE [a EXCEPT !.wait = TRUE]

wait_stopped(a) == [a EXCEPT !.wait = FALSE]

work_started(a) == [a EXCEPT !.work = TRUE]

work_stopped(a) == [a EXCEPT !.work = FALSE]

\* A collaborator call, and whether the worker owned m_lock while inside it.
Ext(name, owner) == [name |-> name, locked |-> owner = Worker]

\* helpers::unlock_do_and_lock_again, second half: relock_again at scope exit.
\* The worker goes on at `next` once it owns the mutex again.
Relock(next) ==
    IF m_lock = Worker
    THEN /\ wpc' = "self_deadlock"
         /\ m_lock' = m_lock
    ELSE /\ m_lock = NoOwner
         /\ m_lock' = Worker
         /\ wpc' = next

\* env_infrastructure_t::register_coop, called n times by init_fn: the call is
\* forwarded to the repository, which accepts registrations until
\* deregister_all_coop.
register_coop(n) ==
    [c \in Coops |-> IF c <= n /\ ~dereg_started THEN "live" ELSE coop_state[c]]

\* wrap_init_fn_call returns normally: init_fn has registered n cooperations.
wrap_init_fn_call(n) ==
    /\ wpc = "init"
    /\ InputsUsed + n <= MaxInputs
    /\ coop_state' = register_coop(n)
    /\ wpc' = "loop_lock"
    /\ last_notify' = "none"
    /\ UNCHANGED << m_lock, guarded, coops, demand, exception_from_init,
                    launch_result, call, cv_notified, sleep_left, dereg_started,
                    timers, push_hist, dispatched, ext_call,
                    unobserved, activity >>

\* Variant: the exception leaves run_user_supplied_init_and_do_main_loop at
\* once, without stop() and without the main loop.
init_fn_rethrows_at_once(n) ==
    /\ wpc = "init"
    /\ InputsUsed + n <= MaxInputs
    /\ coop_state' = register_coop(n)
    /\ exception_from_init' = TRUE
    /\ launch_result' = "rethrown"
    /\ wpc' = "done"
    /\ last_notify' = "none"
    /\ UNCHANGED << m_lock, guarded, coops, demand, call,
                    cv_notified, sleep_left, dereg_started, timers, push_hist,
                    dispatched, ext_call, unobserved, activity >>

\* wrap_init_fn_call throws after init_fn has registered n cooperations:
\* the exception is stored and stop() is called.
init_fn_throws(n) ==
    /\ wpc = "init"
    /\ InputsUsed + n <= MaxInputs
    /\ coop_state' = register_coop(n)
    /\ exception_from_init' = TRUE
    /\ wpc' = "init_stop"
    /\ last_notify' = "none"
    /\ UNCHANGED << m_lock, guarded, coops, demand, launch_result, call,
                    cv_notified, sleep_left, dereg_started, timers, push_hist,
                    dispatched, ext_call, unobserved, activity >>

\* run_main_loop up to the first acquisition of the main lock.
run_main_loop ==
    /\ wpc = "loop_lock"
    /\ activity' = wait_started(activity)
    /\ m_lock = NoOwner
    /\ m_lock' = Worker
    /\ wpc' = "drain"
    /\ last_notify' = "none"
    /\ UNCHANGED << guarded, coops, demand, exception_from_init, launch_result,
                    call, cv_notified, sleep_left, repo, timers, push_hist,
                    dispatched, ext_call, unobserved >>

\* process_final_deregs_if_any: the test of the while loop and the swap.
process_final_deregs_if_any ==
    /\ wpc = "drain"
    /\ IF m_final_dereg_coops # << >>
       THEN /\ coops' = m_final_dereg_coops
            /\ m_final_dereg_coops' = << >>
            /\ m_lock' = UnlockForAction(m_lock)
            /\ wpc' = "final_dereg"
            /\ ext_call' = {Ext("final_deregister_coop", m_lock')}
       ELSE /\ wpc' = "shutdown"
            /\ ext_call' = {}
            /\ UNCHANGED << coops, m_final_dereg_coops, m_lock >>
    /\ unobserved' = unobserved
    /\ last_notify' = "none"
    /\ UNCHANGED << m_status, m_demands, m_shutdown_status, demand,
                    exception_from_init, launch_result, call, cv_notified,
                    sleep_left, repo, timers, push_hist, dispatched, activity >>

\* The body of the for loop: final_deregister_coop for the next handle.
final_deregister_coop ==
    /\ wpc = "final_dereg"
    /\ call[Worker] = Idle
    /\ coops # << >>
    /\ coop_state' = [coop_state EXCEPT ![Head(coops)] = "gone"]
    /\ coops' = Tail(coops)
    /\ ext_call' = {Ext("final_deregister_coop", m_lock)}
    /\ last_notify' = "none"
    /\ UNCHANGED << m_lock, guarded, wpc, demand, exception_from_init,
                    launch_result, call, cv_notified, sleep_left, dereg_started,
                    timers, push_hist, dispatched, unobserved, activity >>

\* The batch is done: the lock is taken again and the while loop goes on.
final_deregs_done ==
    /\ wpc = "final_dereg"
    /\ call[Worker] = Idle
    /\ coops = << >>
    /\ Relock("drain")
    /\ ext_call' = {}
    /\ last_notify' = "none"
    /\ UNCHANGED << guarded, coops, demand, exception_from_init, launch_result,
                    call, cv_notified, sleep_left, repo, timers, push_hist,
                    dispatched, unobserved, activity >>

\* coop_repo_t::deregister_all_coop: the deregistration of every live
\* cooperation is asked for and no registration is accepted any more.
deregister_all_coop(started) == TRUE

\* Variant: the shutdown is started again in every iteration until it completes.
shutdown_not_completed(status) == status \in {"must_be_started", "in_progress"}

\* perform_shutdown_related_actions_if_needed: the test of the first if
shutdown_must_be_started(status) == status = must_be_started

\* perform_shutdown_related_actions_if_needed: the first if. The lock is
\* released and deregister_all_coop is called.
perform_shutdown_related_actions_if_needed ==
    /\ wpc = "shutdown"
    /\ IF shutdown_must_be_started(m_shutdown_status)
       THEN /\ m_shutdown_status' = in_progress
            /\ m_lock' = UnlockForAction(m_lock)
            /\ dereg_started' = deregister_all_coop(dereg_started)
            /\ ext_call' = {Ext("deregister_all_coop", m_lock')}
            /\ wpc' = "dereg_all"
       ELSE /\ wpc' = "shutdown_check"
            /\ ext_call' = {}
            /\ UNCHANGED << m_shutdown_status, m_lock, dereg_started >>
    /\ Observe(IF m_shutdown_status = must_be_started
               THEN {<<"stop", 0>>} ELSE {})
    /\ last_notify' = "none"
    /\ UNCHANGED << m_status, m_demands, m_final_dereg_coops, coops, demand,
                    exception_from_init, launch_result, call, cv_notified,
                    sleep_left, coop_state, timers, push_hist, dispatched,
                    activity >>

\* deregister_all_coop has returned: the lock is taken again.
deregister_all_done ==
    /\ wpc = "dereg_all"
    /\ call[Worker] = Idle
    /\ Relock("shutdown_check")
    /\ ext_call' = {}
    /\ last_notify' = "none"
    /\ UNCHANGED << guarded, coops, demand, exception_from_init, launch_result,
                    call, cv_notified, sleep_left, repo, timers, push_hist,
                    dispatched, unobserved, activity >>

\* Variant: the shutdown is never found complete.
shutdown_never_completed(status, live) == FALSE

\* Variant: the repository is not asked for live cooperations.
shutdown_completed_unchecked(status, live) == status = "in_progress"

\* The condition under which the shutdown is completed.
shutdown_must_be_completed(status, live) == status = in_progress /\ ~live

\* perform_shutdown_related_actions_if_needed: the second if, and the test
\* of run_main_loop that leaves the loop (the unique_lock is released).
check_shutdown_completion ==
    /\ wpc = "shutdown_check"
    /\ m_shutdown_status' =
          IF shutdown_must_be_completed(m_shutdown_status, has_live_coop)
          THEN completed ELSE m_shutdown_status
    /\ ext_call' = IF m_shutdown_status = in_progress
                   THEN {Ext("has_live_coop", m_lock)} ELSE {}
    /\ IF m_shutdown_status' = completed
       THEN /\ wpc' = "exited"
            /\ m_lock' = NoOwner
       ELSE /\ wpc' = "timers"
            /\ m_lock' = m_lock
    /\ last_notify' = "none"
    /\ UNCHANGED << m_status, m_demands, m_final_dereg_coops, coops, demand,
                    exception_from_init, launch_result, call, cv_notified,
                    sleep_left, repo, timers, push_hist, dispatched,
                    unobserved, activity >>

\* run_user_supplied_init_and_do_main_loop after run_main_loop: the exception
\* of init_fn, if any, is rethrown.
launch_return ==
    /\ wpc = "exited"
    /\ launch_result' = IF exception_from_init THEN "rethrown" ELSE "returned"
    /\ wpc' = "done"
    /\ last_notify' = "none"
    /\ UNCHANGED << m_lock, guarded, coops, demand, exception_from_init, call,
                    cv_notified, sleep_left, repo, timers, push_hist, dispatched, ext_call, unobserved,
                    activity >>

\* handle_expired_timers_if_any
handle_expired_timers_if_any ==
    /\ wpc = "timers"
    /\ timers' = process_expired_timers
    /\ IF \E k \in Timers : timers'[k].st = "elapsed"
       THEN /\ m_lock' = UnlockForAction(m_lock)
            /\ wpc' = "timers_process"
            /\ ext_call' = {Ext("process_expired_timers", m_lock),
                            Ext("collector_process", m_lock')}
       ELSE /\ m_lock' = m_lock
            /\ wpc' = "pop"
            /\ ext_call' = {Ext("process_expired_timers", m_lock)}
    /\ Observe({<<"timer", k>> : k \in {j \in Timers : timers'[j].st = "elapsed"}})
    /\ last_notify' = "none"
    /\ UNCHANGED << guarded, coops, demand, exception_from_init, launch_result,
                    call, cv_notified, sleep_left, repo, push_hist, dispatched,
                    activity >>

\* actual_elapsed_timers_collector_t::process: every elapsed timer is
\* delivered to its mbox. Here the delivery pushes a demand to the event queue.
collector_process ==
    /\ wpc = "timers_process"
    /\ call[Worker] = Idle
    /\ ElapsedTimers # {}
    /\ next_demand < MaxDemands
    /\ InputsUsed < MaxInputs
    /\ LET k == CHOOSE j \in ElapsedTimers : \A i \in ElapsedTimers : j <= i
       IN timers' = [timers EXCEPT ![k].st = "delivered",
                                   ![k].dem = next_demand + 1]
    /\ lock_guard(Worker, "push", next_demand + 1)
    /\ next_demand' = next_demand + 1
    /\ precedes' = [precedes EXCEPT ![next_demand + 1] = push_done]
    /\ last_notify' = "none"
    /\ UNCHANGED << guarded, cv_notified, sleep_left, repo, push_done,
                    dispatched, ext_call, unobserved, activity >>

\* Here the delivery pushes nothing to the event queue: the mbox has no
\* subscriber, or its subscribers work on other dispatchers.
collector_process_no_demand ==
    /\ wpc = "timers_process"
    /\ call[Worker] = Idle
    /\ ElapsedTimers # {}
    /\ LET k == CHOOSE j \in ElapsedTimers : \A i \in ElapsedTimers : j <= i
       IN timers' = [timers EXCEPT ![k].st = "delivered"]
    /\ last_notify' = "none"
    /\ UNCHANGED << m_lock, guarded, worker_locals, call, cv_notified, sleep_left,
                    repo, push_hist, dispatched, ext_call,
                    unobserved, activity >>

collector_process_done ==
    /\ wpc = "timers_process"
    /\ call[Worker] = Idle
    /\ ElapsedTimers = {}
    /\ Relock("pop")
    /\ ext_call' = {}
    /\ last_notify' = "none"
    /\ UNCHANGED << guarded, coops, demand, exception_from_init, launch_result,
                    call, cv_notified, sleep_left, repo, timers, push_hist,
                    dispatched, unobserved, activity >>

\* std::deque::front
front(q) == Head(q)

\* Variant: the head is read and left in the queue.
pop_front_kept(q) == q

\* std::deque::pop_front
pop_front(q) == Tail(q)

\* Variant: the worker goes to sleep whatever the backlog holds.
final_deregs_ignored(backlog) == TRUE

\* try_handle_next_demand: if( m_final_dereg_coops.empty() )
final_deregs_empty(backlog) == backlog = << >>

\* try_handle_next_demand: pop, then either the wait or the dispatch.
try_handle_next_demand ==
    /\ wpc = "pop"
    /\ IF m_demands = << >>
       THEN IF final_deregs_empty(m_final_dereg_coops)
            THEN /\ activity' = wait_start_if_not_started(activity)
                 /\ sleep_left' = timeout_before_nearest_timer(IdleCap)
                 /\ m_status' = waiting
                 /\ cv_notified' = FALSE
                 /\ m_lock' = NoOwner
                 /\ wpc' = "cv_wait"
                 /\ ext_call' = {Ext("timeout_before_nearest_timer", m_lock)}
                 /\ UNCHANGED << m_demands, demand, dispatched >>
            ELSE /\ wpc' = "drain"
                 /\ ext_call' = {}
                 /\ UNCHANGED << m_lock, m_status, m_demands, demand, dispatched,
                                 sleep_left, cv_notified, activity >>
       ELSE /\ activity' = work_started(wait_stopped(activity))
            /\ demand' = front(m_demands)
            /\ m_demands' = pop_front(m_demands)
            /\ dispatched' = Append(dispatched, front(m_demands))
            /\ m_lock' = UnlockForAction(m_lock)
            /\ wpc' = "handle"
            /\ ext_call' = {Ext("handle_demand", m_lock')}
            /\ UNCHANGED << m_status, sleep_left, cv_notified >>
    /\ Observe(IF wpc' = "cv_wait"
               THEN {<<"timer", k>> : k \in Timers} ELSE {})
    /\ last_notify' = "none"
    /\ UNCHANGED << m_final_dereg_coops, m_shutdown_status, coops,
                    exception_from_init, launch_result, call, repo, timers,
                    push_hist >>

\* Variant: after a demand the loop goes straight to the next pop.
handle_demand_done_then_pop ==
    /\ wpc = "handle"
    /\ call[Worker] = Idle
    /\ Relock("pop")
    /\ activity' = work_stopped(activity)
    /\ demand' = 0
    /\ ext_call' = {}
    /\ last_notify' = "none"
    /\ UNCHANGED << guarded, coops, exception_from_init, launch_result, call,
                    cv_notified, sleep_left, repo, timers, push_hist, dispatched, unobserved >>

\* handle_demand has returned: the lock is taken again.
handle_demand_done ==
    /\ wpc = "handle"
    /\ call[Worker] = Idle
    /\ Relock("drain")
    /\ activity' = work_stopped(activity)
    /\ demand' = 0
    /\ ext_call' = {}
    /\ last_notify' = "none"
    /\ UNCHANGED << guarded, coops, exception_from_init, launch_result, call,
                    cv_notified, sleep_left, repo, timers, push_hist, dispatched, unobserved >>

\* Variant: wait_for returns and m_status is left as it was.
WaitReturn_status_kept ==
    /\ wpc = "cv_wait"
    /\ m_lock = NoOwner
    /\ m_lock' = Worker
    /\ cv_notified' = FALSE
    /\ sleep_left' = 0
    /\ wpc' = "drain"
    /\ ext_call' = {}
    /\ last_notify' = "none"
    /\ UNCHANGED << guarded, coops, demand, exception_from_init, launch_result,
                    call, repo, timers, push_hist, dispatched, unobserved,
                    activity >>

\* wait_for returns with the mutex owned again, and m_status is reset.
WaitReturn ==
    /\ wpc = "cv_wait"
    /\ m_lock = NoOwner
    /\ m_lock' = Worker
    /\ m_status' = working
    /\ cv_notified' = FALSE
    /\ sleep_left' = 0
    /\ wpc' = "drain"
    /\ ext_call' = {}
    /\ last_notify' = "none"
    /\ UNCHANGED << m_demands, m_final_dereg_coops, m_shutdown_status, coops,
                    demand, exception_from_init, launch_result, call, repo, timers,
                    push_hist, dispatched, unobserved, activity >>

\* wait_for ends because of notify_one.
wait_for_notified == cv_notified /\ WaitReturn

\* wait_for ends because sleep_time has elapsed.
wait_for_timeout == sleep_left = 0 /\ WaitReturn

\* wait_for ends spuriously, as std::condition_variable allows.
wait_for_spurious == WaitReturn

\* ------------------------------------------------- a failure of an action
\* Variant: the exception leaves unlock_do_and_lock_again without the relock.
action_throws_no_relock ==
    /\ wpc \in Windows
    /\ call[Worker] = Idle
    /\ wpc' = "rethrown"
    /\ activity' = IF wpc = "handle" THEN work_stopped(activity) ELSE activity
    /\ ext_call' = {}
    /\ last_notify' = "none"
    /\ UNCHANGED << m_lock, guarded, coops, demand, exception_from_init,
                    launch_result, call, cv_notified, sleep_left, repo, timers,
                    push_hist, dispatched, unobserved >>

\* The action run by helpers::unlock_do_and_lock_again throws and the stack
\* is unwound: relock_again locks the mutex, work_tracking_stopper calls
\* work_stopped when the action was handle_demand, then the exception goes on to
\* the caller, a noexcept function of the main loop, where std::terminate
\* ends the process.
action_throws ==
    /\ wpc \in Windows
    /\ call[Worker] = Idle
    /\ Relock("rethrown")
    /\ activity' = IF wpc = "handle" THEN work_stopped(activity) ELSE activity
    /\ ext_call' = {}
    /\ last_notify' = "none"
    /\ UNCHANGED << guarded, coops, demand, exception_from_init, launch_result,
                    call, cv_notified, sleep_left, repo, timers, push_hist,
                    dispatched, unobserved >>

\* The action throws and std::terminate is called without any unwinding,
\* as the implementation may choose when the exception meets a noexcept
\* function: the mutex is not locked again and nothing runs any more.
action_throws_no_unwinding ==
    /\ wpc \in Windows
    /\ call[Worker] = Idle
    /\ wpc' = "terminated"
    /\ ext_call' = {}
    /\ last_notify' = "none"
    /\ UNCHANGED << m_lock, guarded, coops, demand, exception_from_init,
                    launch_result, call, cv_notified, sleep_left, repo, timers,
                    push_hist, dispatched, unobserved, activity >>

\* The process runs: std::terminate has not been called.
Running == wpc \notin {"rethrown", "terminated"}

\* ---------------------------------------------------------- specification
Callers ==
    \E t \in Threads :
        \/ call_push(t)
        \/ call_stop(t)
        \/ \E c \in Coops : call_ready_to_deregister_notify(t, c)
        \/ \E p \in Pauses : call_schedule_timer(t, p)
        \/ \E p \in Pauses : call_single_timer(t, p)
        \/ call_query_stats(t)
        \/ push(t)
        \/ stop(t)
        \/ ready_to_deregister_notify(t)
        \/ schedule_timer(t)
        \/ single_timer(t)
        \/ query_stats(t)

Environment ==
    \/ Tick

WorkerStep ==
    \/ \E n \in 0..MaxCoops : wrap_init_fn_call(n)
    \/ \E n \in 0..MaxCoops : init_fn_throws(n)
    \/ run_main_loop
    \/ process_final_deregs_if_any
    \/ final_deregister_coop
    \/ final_deregs_done
    \/ perform_shutdown_related_actions_if_needed
    \/ deregister_all_done
    \/ check_shutdown_completion
    \/ launch_return
    \/ handle_expired_timers_if_any
    \/ collector_process
    \/ collector_process_no_demand
    \/ collector_process_done
    \/ try_handle_next_demand
    \/ handle_demand_done
    \/ wait_for_notified
    \/ wait_for_timeout

Next == Callers \/ Environment \/ WorkerStep \/ wait_for_spurious

Spec == Init /\ [][Next]_vars

\* Fair scheduling: a thread inside an entry point leaves it; the worker,
\* which may have to wait for the mutex, goes on whenever it can do so again
\* and again (this includes the return of wait_for once it is notified or its
\* time is over); the clock goes on; and a live cooperation whose
\* deregistration was asked for by deregister_all_coop tells that it is ready.
Bodies ==
    \E t \in Threads :
        \/ push(t)
        \/ stop(t)
        \/ ready_to_deregister_notify(t)
        \/ schedule_timer(t)
        \/ single_timer(t)
        \/ query_stats(t)

CoopBecomesReady(c) ==
    /\ dereg_started
    /\ \E t \in Producers : call_ready_to_deregister_notify(t, c)

StopAfterInitFailure == wpc = "init_stop" /\ call_stop(Worker)

Fairness ==
    /\ WF_vars(Bodies)
    /\ SF_vars(WorkerStep)
    /\ SF_vars(StopAfterInitFailure)
    /\ WF_vars(Tick)
    /\ \A c \in Coops : SF_vars(CoopBecomesReady(c))

SpecFair == Init /\ [][Next]_vars /\ Fairness

\* The same program with actions that may fail.
Failure ==
    \/ action_throws
    \/ action_throws_no_unwinding

NextWithFailure == (Running /\ Next) \/ Failure

SpecWithFailure == Init /\ [][NextWithFailure]_vars

\* ------------------------------------------------------------------ claims
\* C1. Drain before complete: in every reachable state, m_shutdown_status is
\* completed only if the backlog of final deregistrations is empty and the
\* repository has no live cooperation.
DrainBeforeComplete ==
    m_shutdown_status = completed =>
        m_final_dereg_coops = << >> /\ ~has_live_coop

\* A shutdown completed after the final deregistration of a cooperation whose
\* notification arrived during the shutdown.
DrainBeforeCompleteWitness ==
    /\ m_shutdown_status = completed
    /\ \E c \in Coops : coop_state[c] = "gone"

\* C2. No lost wakeup: the worker is never blocked in wait_for, not notified,
\* while the queue or the backlog holds something, or while a stop request or
\* a timer made during this wait has not been seen by it. Since the wait
\* begins not notified, the worker enters wait_for again only after it has
\* popped every demand, swapped the backlog, acted on must_be_started and
\* computed the wait bound with the new timer.
NoLostWakeup ==
    (wpc = "cv_wait" /\ ~cv_notified) =>
        m_demands = << >> /\ m_final_dereg_coops = << >> /\ unobserved = {}

\* A demand pushed while the worker waits, with the worker notified.
NoLostWakeupWitness ==
    wpc = "cv_wait" /\ cv_notified /\ m_demands # << >> /\ unobserved # {}

\* C3. FIFO: the demands are handed to handle_demand in the order in which
\* their pushes locked the mutex, and a demand whose push had returned before
\* the push of another one began is dispatched before that one.
IsPrefix(a, b) == Len(a) <= Len(b) /\ \A i \in 1..Len(a) : a[i] = b[i]

DispatchIsFifo ==
    /\ IsPrefix(dispatched, lock_order)
    /\ \A j \in 1..Len(dispatched) :
          \A d1 \in precedes[dispatched[j]] :
              \E i \in 1..(j - 1) : dispatched[i] = d1

\* Two demands dispatched, the second pushed after the push of the first
\* had returned.
DispatchIsFifoWitness ==
    /\ Len(dispatched) = 2
    /\ dispatched[1] \in precedes[dispatched[2]]

\* C4. stop() is idempotent: a stop() that finds the shutdown status other
\* than not_started leaves the status, the queue, the backlog and m_status
\* unchanged and notifies nobody; a stop() that finds not_started sets
\* must_be_started and notifies exactly when m_status is waiting.
StopStep(t) == InBody(t, "stop") /\ call'[t] = Idle

StopIsIdempotent ==
    [][\A t \in Threads : StopStep(t) =>
          IF m_shutdown_status = not_started
          THEN /\ m_shutdown_status' = must_be_started
               /\ (last_notify' # "none") = (m_status = waiting)
               /\ UNCHANGED << m_status, m_demands, m_final_dereg_coops >>
          ELSE /\ UNCHANGED guarded
               /\ cv_notified' = cv_notified
               /\ last_notify' = "none"]_vars

\* stop() is running while the shutdown is already in progress.
StopIsIdempotentWitness ==
    \E t \in Producers : InBody(t, "stop") /\ m_shutdown_status = in_progress

\* C5. The shutdown status is monotonic: it begins as not_started, no step
\* lowers its ordinal, and completed is never left.
ShutdownIsMonotonic ==
    /\ m_shutdown_status = not_started
    /\ [][/\ ShutdownOrd(m_shutdown_status') >= ShutdownOrd(m_shutdown_status)
          /\ m_shutdown_status = completed => m_shutdown_status' = completed]_vars

\* stop() is running after the shutdown has completed.
ShutdownIsMonotonicWitness ==
    \E t \in Producers : InBody(t, "stop") /\ m_shutdown_status = completed

\* C6. Init failure: when init_fn throws, stop() is called before the main
\* loop, the main loop runs, and the exception is rethrown only after the
\* loop has ended with the status completed and no live cooperation.
InitFailurePropagation ==
    /\ launch_result = "rethrown" =>
          /\ exception_from_init
          /\ wpc = "done"
          /\ m_shutdown_status = completed
          /\ ~has_live_coop
    /\ (exception_from_init /\ wpc # "init_stop") =>
          m_shutdown_status # not_started
    /\ (exception_from_init /\ wpc = "done") => launch_result = "rethrown"

\* The exception is rethrown after a cooperation registered by init_fn has
\* been finally deregistered.
InitFailurePropagationWitness ==
    /\ launch_result = "rethrown"
    /\ \E c \in Coops : coop_state[c] = "gone"

\* C7. Lock discipline: a thread is inside the body of an entry point, or the
\* worker is at a step of the main loop that reads or writes the queue, the
\* backlog, the shutdown status or m_status, only while it owns m_lock; so no
\* two threads are at such places together.
InCriticalSection(t) ==
    \/ call[t].st = "locked"
    \/ t = Worker /\ wpc \in LockedPcs

LockDiscipline ==
    /\ \A t \in Threads : InCriticalSection(t) => m_lock = t
    /\ \A t, u \in Threads :
          (InCriticalSection(t) /\ InCriticalSection(u)) => t = u

\* A producer is inside push while the worker is inside handle_demand.
LockDisciplineWitness ==
    \E t \in Producers : InBody(t, "push") /\ wpc = "handle"

\* C8 as stated: the worker owns m_lock during no collaborator call.
NoCollaboratorCallUnderLock ==
    \A e \in ext_call : ~e.locked

\* C8, amended: the worker does not own m_lock while it is inside
\* handle_demand, final_deregister_coop, deregister_all_coop or the collector's
\* process(); it owns it during has_live_coop, process_expired_timers and
\* timeout_before_nearest_timer.
CalledUnderLock ==
    {"has_live_coop", "process_expired_timers", "timeout_before_nearest_timer"}

CollaboratorCallsAndLock ==
    /\ \A e \in ext_call : e.locked = (e.name \in CalledUnderLock)
    /\ (wpc \in Windows /\ call[Worker] = Idle) => m_lock # Worker

\* The worker is inside handle_demand without the lock.
CollaboratorCallsAndLockWitness ==
    /\ wpc = "handle"
    /\ [name |-> "handle_demand", locked |-> FALSE] \in ext_call

\* C9. Reentrancy: the worker never locks the mutex it owns, and the owner of
\* the mutex is always inside a critical section, which ends without waiting
\* for anything: a call made by the worker from a handler, from
\* final_deregister_coop or from deregister_all_coop finds the mutex free or
\* owned by a producer that will release it.
ReentrancyIsSafe ==
    /\ wpc # "self_deadlock"
    /\ m_lock # NoOwner => InCriticalSection(m_lock)
    /\ (wpc \in Windows /\ call[Worker] = Idle) => m_lock # Worker

\* The worker is inside ready_to_deregister_notify, called from
\* final_deregister_coop.
ReentrancyIsSafeWitness ==
    wpc = "final_dereg" /\ InBody(Worker, "ready_to_deregister_notify")

\* C10. notify_one is called only when m_status is waiting.
NotifyOnlyWhenWaiting ==
    last_notify \in {"none", waiting}

\* A timer call has notified the waiting worker.
NotifyOnlyWhenWaitingWitness ==
    last_notify = waiting /\ unobserved # {} /\ m_shutdown_status = not_started

\* C13. Every demand is dispatched at most once and only after it was pushed:
\* the dispatch history has no duplicates, is a prefix of the order in which
\* the pushes locked the mutex, and holds only demands whose push has
\* returned. The pop is never blocked, and a pop that finds the queue empty
\* leaves the queue, the local demand and the dispatch history unchanged.
NoDuplicates(q) == \A i, j \in 1..Len(q) : q[i] = q[j] => i = j

DispatchedOnceState ==
    /\ NoDuplicates(dispatched)
    /\ IsPrefix(dispatched, lock_order)
    /\ \A i \in 1..Len(dispatched) : dispatched[i] \in push_done
    /\ wpc = "pop" => ENABLED try_handle_next_demand

DispatchedOnce ==
    /\ DispatchedOnceState
    /\ [][/\ DispatchedOnceState'
          /\ (wpc = "pop" /\ wpc' # "pop" /\ m_demands = << >>) =>
                /\ wpc' \in {"cv_wait", "drain"}
                /\ UNCHANGED << m_demands, demand, dispatched >>]_vars

\* Two demands have been dispatched and the next pop has found the queue empty.
DispatchedOnceWitness ==
    Len(dispatched) >= 2 /\ wpc = "cv_wait" /\ m_demands = << >>

\* C18. The worker begins the idle wait only from the pop, with the mutex
\* owned and with the queue and the backlog both empty, and it sets m_status
\* to waiting in that step; a pop that finds the queue empty and the backlog
\* not empty goes to the drain of the next iteration without waiting.
WaitOnlyWhenIdle ==
    [][/\ (wpc # "cv_wait" /\ wpc' = "cv_wait") =>
             /\ wpc = "pop"
             /\ m_lock = Worker
             /\ m_demands = << >>
             /\ m_final_dereg_coops = << >>
             /\ m_status' = waiting
       /\ (wpc = "pop" /\ wpc' # "pop" /\ m_demands = << >>
             /\ m_final_dereg_coops # << >>) =>
             /\ wpc' = "drain"
             /\ m_lock' = Worker
             /\ m_status' = working
             /\ UNCHANGED << m_demands, m_final_dereg_coops >>]_vars

\* The pop finds the queue empty and the backlog not empty.
WaitOnlyWhenIdleWitness ==
    wpc = "pop" /\ m_demands = << >> /\ m_final_dereg_coops # << >>

\* C19 as stated: the worker never begins the idle wait while the shutdown
\* status is must_be_started.
StopNeverSleptOn ==
    [][(wpc # "cv_wait" /\ wpc' = "cv_wait") =>
          m_shutdown_status # must_be_started]_vars

\* C20. deregister_all_coop is called at most once, by the worker, in the step
\* that takes the shutdown status from must_be_started to in_progress, and
\* the status is in_progress while the call runs; the status is completed
\* only after the call; every change of the status raises its ordinal by one.
DeregisterAllCalled ==
    [name |-> "deregister_all_coop", locked |-> FALSE] \in ext_call

DeregisterAllOnceState ==
    /\ wpc = "dereg_all" => m_shutdown_status = in_progress /\ dereg_started
    /\ m_shutdown_status = completed => dereg_started
    /\ dereg_started => m_shutdown_status \in {in_progress, completed}

DeregisterAllOnce ==
    /\ ~dereg_started /\ DeregisterAllOnceState
    /\ [][/\ DeregisterAllOnceState'
          /\ (\/ dereg_started' # dereg_started
              \/ wpc # "dereg_all" /\ wpc' = "dereg_all"
              \/ ~DeregisterAllCalled /\ DeregisterAllCalled') =>
                /\ ~dereg_started /\ dereg_started'
                /\ wpc = "shutdown" /\ wpc' = "dereg_all"
                /\ m_lock = Worker /\ m_lock' = NoOwner
                /\ m_shutdown_status = must_be_started
                /\ m_shutdown_status' = in_progress
          /\ m_shutdown_status' # m_shutdown_status =>
                ShutdownOrd(m_shutdown_status') =
                    ShutdownOrd(m_shutdown_status) + 1]_vars

\* stop() is called again while deregister_all_coop runs.
DeregisterAllOnceWitness ==
    /\ wpc = "dereg_all" /\ DeregisterAllCalled
    /\ \E t \in Producers : InBody(t, "stop")

\* C17. Backlog drain: the handles waiting for their final deregistration are
\* those of the batch followed by those of the backlog, each once; the drain
\* swaps the whole backlog into the empty batch with the mutex owned, a
\* handle is appended at the tail of the backlog and never to the batch, the
\* final deregistration always takes the oldest waiting handle, with the
\* mutex released, and the drain ends only with the backlog empty and the
\* mutex owned.
WaitingHandles == coops \o m_final_dereg_coops

BeingAppended ==
    {call[t].arg : t \in {u \in Threads : InBody(u, "ready_to_deregister_notify")}}

BacklogDrainState ==
    /\ NoDuplicates(WaitingHandles)
    /\ {WaitingHandles[i] : i \in 1..Len(WaitingHandles)} \cup BeingAppended
          = {c \in Coops : coop_state[c] = "notified"}
    /\ coops # << >> => wpc = "final_dereg"
    /\ wpc = "shutdown" => m_final_dereg_coops = << >> /\ m_lock = Worker

BacklogDrain ==
    /\ BacklogDrainState
    /\ [][/\ BacklogDrainState'
          /\ \A c \in Coops :
                (coop_state[c] # "gone" /\ coop_state'[c] = "gone") =>
                    /\ wpc = "final_dereg" /\ m_lock # Worker
                    /\ WaitingHandles # << >> /\ c = Head(WaitingHandles)
                    /\ WaitingHandles' = Tail(WaitingHandles)
          /\ (wpc = "drain" /\ wpc' = "final_dereg") =>
                /\ m_lock = Worker /\ coops = << >>
                /\ coops' = m_final_dereg_coops
                /\ m_final_dereg_coops' = << >>
          /\ (m_final_dereg_coops' # m_final_dereg_coops
                /\ m_final_dereg_coops' # << >>) =>
                /\ coops' = coops
                /\ \E t \in Threads :
                      /\ InBody(t, "ready_to_deregister_notify")
                      /\ m_lock = t
                      /\ m_final_dereg_coops' =
                            Append(m_final_dereg_coops, call[t].arg)]_vars

\* A handle has been appended to the backlog while a batch is processed.
BacklogDrainWitness ==
    /\ wpc = "final_dereg" /\ coops # << >>
    /\ m_final_dereg_coops # << >>

\* C16. Fixed order of the steps of an iteration: the worker goes from the
\* drain to the shutdown evaluation, from there out of the loop or to the
\* expired timers, then to the pop, and from the pop to one dispatch or one
\* wait or, with a non-empty backlog, nothing; each of these leads back to the
\* drain. So a dispatch is reached only through a drain, a shutdown
\* evaluation and a timer check made since the previous one. Timers expire
\* only in the timer step and are delivered only in the collector's window,
\* demands are dispatched only by the pop, and once the status is completed
\* the worker is out of the loop: no timer is delivered, no demand dispatched.
StepsAfter(pc) ==
    CASE pc = "loop_lock" -> {"drain"}
      [] pc = "drain" -> {"final_dereg", "shutdown"}
      [] pc = "final_dereg" -> {"drain"}
      [] pc = "shutdown" -> {"dereg_all", "shutdown_check"}
      [] pc = "dereg_all" -> {"shutdown_check"}
      [] pc = "shutdown_check" -> {"timers", "exited"}
      [] pc = "timers" -> {"timers_process", "pop"}
      [] pc = "timers_process" -> {"pop"}
      [] pc = "pop" -> {"handle", "cv_wait", "drain"}
      [] pc = "handle" -> {"drain"}
      [] pc = "cv_wait" -> {"drain"}
      [] pc = "exited" -> {"done"}
      [] OTHER -> {"init_stop", "loop_lock"}

StepOrder ==
    [][/\ wpc' # wpc => wpc' \in StepsAfter(wpc)
       /\ dispatched' # dispatched =>
             /\ wpc = "pop" /\ wpc' = "handle"
             /\ dispatched' = Append(dispatched, Head(m_demands))
       /\ (\E k \in Timers : timers[k].st # "elapsed" /\ timers'[k].st = "elapsed")
             => wpc = "timers"
       /\ (\E k \in Timers : timers[k].st # "delivered" /\ timers'[k].st = "delivered")
             => wpc = "timers_process" /\ wpc' = "timers_process"
       /\ (wpc = "timers" /\ wpc' # wpc) =>
             \A k \in Timers : ~(timers'[k].st = "pending" /\ timers'[k].left = 0)
       /\ (wpc = "timers_process" /\ wpc' # wpc) =>
             \A k \in Timers : timers'[k].st # "elapsed"
       /\ (m_shutdown_status' = completed) =>
             /\ wpc' \in {"exited", "done"}
             /\ dispatched' = dispatched
             /\ \A k \in Timers : timers'[k].st \in {"elapsed", "delivered"}
                                     => timers'[k].st = timers[k].st]_vars

\* A second demand is dispatched after a timer was delivered in between.
StepOrderWitness ==
    /\ wpc = "handle" /\ Len(dispatched) >= 2
    /\ \E k \in Timers : timers[k].st = "delivered"

TimerBoundedWaitState ==
    wpc = "cv_wait" =>
        \/ cv_notified
        \/ /\ sleep_left <= IdleCap
           /\ \A k \in PendingTimers : sleep_left <= timers[k].left

InAction == wpc \in Windows /\ call[Worker] = Idle

ScopedUnlockState ==
    /\ InAction => m_lock # Worker
    /\ wpc \in LockedPcs \cup {"rethrown"} => m_lock = Worker
    /\ wpc # "self_deadlock"

ScopedUnlock ==
    /\ ScopedUnlockState
    /\ [][/\ ScopedUnlockState'
          /\ (wpc \notin Windows /\ wpc' \in Windows) =>
                m_lock = Worker /\ m_lock' = NoOwner
          /\ (wpc \in Windows /\ wpc' \notin Windows) =>
                /\ InAction
                /\ \/ wpc' \in LockedPcs \cup {"rethrown"} /\ m_lock' = Worker
                   \/ wpc' = "terminated" /\ m_lock' = m_lock
          /\ ~Running => UNCHANGED vars]_vars

\* handle_demand has thrown and the worker owns the mutex again.
ScopedUnlockWitness ==
    wpc = "rethrown" /\ m_lock = Worker /\ demand # 0

\* C11. Shutdown terminates: under fair scheduling, once stop() has changed
\* the shutdown status, the main loop ends with the status completed, with
\* every registered cooperation finally deregistered and the backlog empty.
ShutdownDone ==
    /\ wpc \in {"exited", "done"}
    /\ m_shutdown_status = completed
    /\ m_final_dereg_coops = << >>
    /\ \A c \in Coops : coop_state[c] \in {"none", "gone"}

ShutdownTerminates ==
    (m_shutdown_status # not_started) ~> ShutdownDone

\* The loop has ended after the final deregistration of every cooperation,
\* the last of them in a batch of its own.
ShutdownTerminatesWitness ==
    /\ ShutdownDone
    /\ \A c \in Coops : coop_state[c] = "gone"
    /\ ext_call = {[name |-> "has_live_coop", locked |-> TRUE]}

\* C12 as stated, at the end of the loop: no pushed demand is left in the
\* queue when the main loop exits.
NoDemandLeftAtExit ==
    [][(wpc # "exited" /\ wpc' = "exited") => m_demands' = << >>]_vars

\* C12, amended: under fair scheduling every demand whose push has returned
\* is dispatched, or else the main loop ends first: the loop ends as soon as
\* the shutdown is complete, whatever the queue holds.
WasDispatched(d) == \E i \in 1..Len(dispatched) : dispatched[i] = d

PushedDemandDispatched ==
    \A d \in DemandIds :
        (d \in push_done) ~> (WasDispatched(d) \/ wpc \in {"exited", "done"})

\* Every demand has been dispatched and the worker idles, no stop() so far.
PushedDemandDispatchedWitness ==
    /\ wpc = "cv_wait" /\ m_shutdown_status = not_started
    /\ push_done # {}
    /\ \A d \in push_done : WasDispatched(d)

\* C21. The status of the worker is waiting exactly while the worker is
\* blocked inside wait_for: in every reachable state m_status is waiting if
\* and only if the worker is suspended in the wait (lines 762 and 768 are
\* executed with m_lock owned, next to wait_for, so no other thread sees the
\* status between an assignment and the wait); a thread that owns m_lock
\* inside an entry point and reads waiting finds the worker suspended in the
\* wait; and in every unlocked window of the loop (final_deregister_coop
\* batch, deregister_all_coop, collector process(), handle_demand) m_status
\* is working.
HoldsLockInEntryPoint(t) == m_lock = t /\ call[t].st = "locked"

StatusIsWaitingOnlyInWait ==
    /\ (m_status = waiting) <=> (wpc = "cv_wait")
    /\ \A t \in Threads :
          HoldsLockInEntryPoint(t) /\ m_status = waiting => wpc = "cv_wait"
    /\ wpc \in Windows => m_status = working
    /\ m_status \in {working, waiting}

\* A producer owns m_lock inside an entry point and reads waiting, after the
\* worker has already been through an unlocked window.
StatusIsWaitingOnlyInWaitWitness ==
    /\ \E t \in Producers : HoldsLockInEntryPoint(t)
    /\ m_status = waiting
    /\ dispatched # << >>

\* C22. The calls on the activity tracker are well paired: every step that
\* calls work_started finds the previous work phase stopped, the work phase
\* is stopped by the step in which handle_demand has returned and m_lock is
\* owned again, and by no other step; and every step that calls wait_stopped
\* finds a wait phase started, by wait_started or wait_start_if_not_started,
\* since the previous wait_stopped, also when demands are dispatched in
\* consecutive iterations with no wait between them.
DemandTaken == wpc = "pop" /\ wpc' = "handle"

DemandHandled == wpc = "handle" /\ wpc' \notin {"handle", "self_deadlock"}

WorkPhasePaired ==
    /\ DemandTaken => ~activity.work /\ activity'.work
    /\ DemandHandled => activity.work /\ ~activity'.work /\ m_lock' = Worker
    /\ activity.work # activity'.work => DemandTaken \/ DemandHandled

WaitPhasePaired == DemandTaken => activity.wait

\* The part about the work phase, for every step of the program.
WorkPhaseCalls == [][WorkPhasePaired]_vars

TrackerCallsWellPaired == [][WorkPhasePaired /\ WaitPhasePaired]_vars

====
